---- MODULE Spec2Model ----
(***************************************************************************)
(* Blob operations of the registry client (src/registry/blob.go):          *)
(* UploadBlob, UploadBlobChunked, initiateUpload and HasBlob, together     *)
(* with the http client / transport stack and the peer they talk to.       *)
(*                                                                         *)
(* Text (header values, URLs) is a sequence of one-character strings, so   *)
(* that formatting, parsing and query encoding are computed.  A payload is *)
(* the byte array contBytes[0 .. contLength); a request body is the slice  *)
(* [lo, hi) of it that the code hands to bytes.NewBuffer, and a reader     *)
(* over a body additionally has a read offset.                             *)
(***************************************************************************)
EXTENDS Integers, Sequences, FiniteSets, TLC

(***************************************************************************)
(* Bounds of the model.                                                    *)
(***************************************************************************)
\* payloads have up to MaxChunks full chunks (plus a remainder)
MaxChunks == 2

(***************************************************************************)
(* Text.                                                                   *)
(***************************************************************************)
\* the characters the model's texts use, in ASCII order
AsciiOrder ==
  << "%", "&", "-", ".", "/",
     "0", "1", "2", "3", "4", "5", "6", "7", "8", "9",
     ":", "=", "?", "A", "B", "C", "D", "E", "F", "_",
     "a", "b", "d", "e", "f", "g", "h", "i", "l", "m", "n", "o", "p", "r", "s",
     "t", "u", "v", "z" >>

Ord(c) == CHOOSE i \in 1..Len(AsciiOrder) : AsciiOrder[i] = c

Digits == << "0", "1", "2", "3", "4", "5", "6", "7", "8", "9" >>

IsDigit(c) == \E i \in 1..10 : Digits[i] = c

IsLetter(c) == Ord(c) >= Ord("A") /\ c # "_"

IsHex(c) == IsDigit(c) \/ c \in {"A", "B", "C", "D", "E", "F", "a", "b", "d", "e", "f"}

RECURSIVE ItoaNat(_)
ItoaNat(n) ==
  IF n < 10 THEN << Digits[n + 1] >>
  ELSE ItoaNat(n \div 10) \o << Digits[(n % 10) + 1] >>

\* strconv.Itoa, and the %d verb of fmt.Sprintf
Itoa(n) == IF n < 0 THEN << "-" >> \o ItoaNat(0 - n) ELSE ItoaNat(n)

\* fmt.Sprintf("%d-%d", a, b)
SprintfRange(a, b) == Itoa(a) \o << "-" >> \o Itoa(b)

\* index of the first occurrence of character c in s, 0 when there is none
IndexOf(s, c) ==
  IF \E i \in 1..Len(s) : s[i] = c
  THEN CHOOSE i \in 1..Len(s) : s[i] = c /\ \A j \in 1..(i - 1) : s[j] # c
  ELSE 0

HasPrefix(s, p) == Len(s) >= Len(p) /\ SubSeq(s, 1, Len(p)) = p

Tail2(s, i) == SubSeq(s, i, Len(s))

RECURSIVE Less(_, _)
\* a < b on strings (byte-wise, as sort.Strings)
Less(a, b) ==
  IF b = << >> THEN FALSE
  ELSE IF a = << >> THEN TRUE
  ELSE IF a[1] # b[1] THEN Ord(a[1]) < Ord(b[1])
  ELSE Less(Tail(a), Tail(b))

SplitAt(s, i) == IF i = 0 THEN s ELSE SubSeq(s, 1, i - 1)

RestAt(s, i) == IF i = 0 THEN << >> ELSE Tail2(s, i + 1)

RECURSIVE Split(_, _)
\* strings.Split(s, sep) for a one-character sep
Split(s, sep) ==
  IF IndexOf(s, sep) = 0 THEN << s >>
  ELSE << SplitAt(s, IndexOf(s, sep)) >> \o Split(RestAt(s, IndexOf(s, sep)), sep)

RECURSIVE Join(_, _)
Join(parts, sep) ==
  IF parts = << >> THEN << >>
  ELSE IF Len(parts) = 1 THEN parts[1]
  ELSE parts[1] \o << sep >> \o Join(Tail(parts), sep)

(***************************************************************************)
(* net/url as blob.go uses it: url.Parse, URL.Query, Values.Set,           *)
(* Values.Encode, URL.String.  A URL is a record of Scheme, Opaque, Host,  *)
(* Path and RawQuery (no user info, port or fragment occurs in the model). *)
(***************************************************************************)
EmptyURL ==
  [Scheme |-> << >>, Opaque |-> << >>, Host |-> << >>, Path |-> << >>,
   RawQuery |-> << >>]

\* a character that can continue a scheme at position i
SchemeChar(c, i) == IsLetter(c) \/ (i > 1 /\ (IsDigit(c) \/ c \in {"-", "."}))

\* position of the first character that cannot continue a scheme, 0 if none
SchemeStop(raw) ==
  IF \A i \in 1..Len(raw) : SchemeChar(raw[i], i) THEN 0
  ELSE CHOOSE i \in 1..Len(raw) :
         ~SchemeChar(raw[i], i) /\ \A j \in 1..(i - 1) : SchemeChar(raw[j], j)

SchemeAt(raw, stop) ==
  IF stop = 0 \/ raw[stop] # ":"
  THEN [err |-> FALSE, scheme |-> << >>, rest |-> raw]
  ELSE IF stop = 1
  THEN [err |-> TRUE, scheme |-> << >>, rest |-> raw]
  ELSE [err |-> FALSE, scheme |-> SubSeq(raw, 1, stop - 1),
        rest |-> Tail2(raw, stop + 1)]

\* url.getScheme: [err, scheme, rest]
GetScheme(raw) == SchemeAt(raw, SchemeStop(raw))

\* every % of s is followed by two hex digits
ValidEscapes(s) ==
  \A i \in 1..Len(s) :
    s[i] = "%" => (i + 2 <= Len(s) /\ IsHex(s[i + 1]) /\ IsHex(s[i + 2]))

ParseFail == [err |-> TRUE, url |-> EmptyURL]

\* url.parse, setPath: the path must unescape
ParsePath(scheme, host, path, query) ==
  IF ~ValidEscapes(path) THEN ParseFail
  ELSE [err |-> FALSE,
        url |-> [Scheme |-> scheme, Opaque |-> << >>, Host |-> host,
                 Path |-> path, RawQuery |-> query]]

\* url.parse: the authority is what follows "//", up to the next "/"
ParseAuthority(scheme, after, cut, query) ==
  ParsePath(scheme, SplitAt(after, cut),
            IF cut = 0 THEN << >> ELSE Tail2(after, cut), query)

\* url.parse, after the scheme and the query are split off
ParseHier(scheme, rest, query) ==
  IF ~HasPrefix(rest, << "/" >>) /\ scheme # << >>
  THEN [err |-> FALSE,
        url |-> [EmptyURL EXCEPT !.Scheme = scheme, !.Opaque = rest,
                                 !.RawQuery = query]]
  ELSE IF ~HasPrefix(rest, << "/" >>) /\ IndexOf(Split(rest, "/")[1], ":") # 0
  THEN ParseFail
  ELSE IF HasPrefix(rest, << "/", "/" >>)
            /\ (scheme # << >> \/ ~HasPrefix(rest, << "/", "/", "/" >>))
  THEN ParseAuthority(scheme, Tail2(rest, 3), IndexOf(Tail2(rest, 3), "/"), query)
  ELSE ParsePath(scheme, << >>, rest, query)

ParseScheme(g) ==
  IF g.err THEN ParseFail
  ELSE ParseHier(g.scheme, SplitAt(g.rest, IndexOf(g.rest, "?")),
                 RestAt(g.rest, IndexOf(g.rest, "?")))

\* url.Parse(rawURL): [err, url]
Parse(rawURL) == ParseScheme(GetScheme(rawURL))

\* URL.String()
String(u) ==
  (IF u.Scheme # << >> THEN u.Scheme \o << ":" >> ELSE << >>)
  \o (IF u.Opaque # << >> THEN u.Opaque
      ELSE (IF (u.Scheme # << >> \/ u.Host # << >>)
                /\ (u.Host # << >> \/ u.Path # << >>)
            THEN << "/", "/" >> ELSE << >>)
           \o u.Host
           \o (IF u.Path # << >> /\ u.Path[1] # "/" /\ u.Host # << >>
               THEN << "/" >> ELSE << >>)
           \o u.Path)
  \o (IF u.RawQuery # << >> THEN << "?" >> \o u.RawQuery ELSE << >>)

\* the characters url.QueryEscape leaves alone
Unreserved(c) == IsLetter(c) \/ IsDigit(c) \/ c \in {"-", "_", "."}

\* %XX of the reserved characters of the model's alphabet
HexOf(c) ==
  CASE c = ":" -> << "%", "3", "A" >>
    [] c = "/" -> << "%", "2", "F" >>
    [] c = "=" -> << "%", "3", "D" >>
    [] c = "?" -> << "%", "3", "F" >>
    [] c = "&" -> << "%", "2", "6" >>
    [] OTHER   -> << "%", "2", "5" >>

RECURSIVE QueryEscape(_)
QueryEscape(s) ==
  IF s = << >> THEN << >>
  ELSE (IF Unreserved(s[1]) THEN << s[1] >> ELSE HexOf(s[1]))
       \o QueryEscape(Tail(s))

Reserved == {":", "/", "=", "?", "&", "%"}

RECURSIVE QueryUnescape(_)
\* url.QueryUnescape of a text whose escapes are valid
QueryUnescape(s) ==
  IF s = << >> THEN << >>
  ELSE IF s[1] = "%"
  THEN << CHOOSE c \in Reserved : HexOf(c) = SubSeq(s, 1, 3) >>
       \o QueryUnescape(Tail2(s, 4))
  ELSE << s[1] >> \o QueryUnescape(Tail(s))

\* an escape QueryUnescape can decode
Decodable(s) ==
  /\ ValidEscapes(s)
  /\ \A i \in 1..Len(s) :
       s[i] = "%" => \E c \in Reserved : HexOf(c) = SubSeq(s, i, i + 2)

\* key, value = strings.Cut(p, "=")
KeyValue(p) == << SplitAt(p, IndexOf(p, "=")), RestAt(p, IndexOf(p, "=")) >>

\* a pair that does not unescape is dropped (URL.Query() ignores the error)
DecodePair(kv) ==
  IF Decodable(kv[1]) /\ Decodable(kv[2])
  THEN << << QueryUnescape(kv[1]), QueryUnescape(kv[2]) >> >>
  ELSE << >>

RECURSIVE ParsePairs(_)
\* url.ParseQuery: the key, value pairs of the "&"-separated parts, in order
ParsePairs(parts) ==
  IF parts = << >> THEN << >>
  ELSE (IF parts[1] = << >> THEN << >> ELSE DecodePair(KeyValue(parts[1])))
       \o ParsePairs(Tail(parts))

RECURSIVE ValuesOf(_, _)
\* the values of key k among the pairs, in order
ValuesOf(pairs, k) ==
  IF pairs = << >> THEN << >>
  ELSE (IF pairs[1][1] = k THEN << pairs[1][2] >> ELSE << >>)
       \o ValuesOf(Tail(pairs), k)

ValuesMap(pairs) ==
  [k \in { pairs[i][1] : i \in 1..Len(pairs) } |-> ValuesOf(pairs, k)]

\* URL.Query(): url.Values, a map from key to the list of its values
Query(u) == ValuesMap(ParsePairs(Split(u.RawQuery, "&")))

\* Values.Set(key, value)
Set(v, key, value) ==
  [k \in DOMAIN v \cup {key} |-> IF k = key THEN << value >> ELSE v[k]]

MinKey(S) == CHOOSE x \in S : \A y \in S \ {x} : Less(x, y)

RECURSIVE SortKeys(_)
SortKeys(S) ==
  IF S = {} THEN << >>
  ELSE << MinKey(S) >> \o SortKeys(S \ {MinKey(S)})

RECURSIVE EncodeKey(_, _)
EncodeKey(k, vals) ==
  IF vals = << >> THEN << >>
  ELSE << QueryEscape(k) \o << "=" >> \o QueryEscape(vals[1]) >>
       \o EncodeKey(k, Tail(vals))

RECURSIVE EncodeKeys(_, _)
EncodeKeys(v, keys) ==
  IF keys = << >> THEN << >>
  ELSE EncodeKey(keys[1], v[keys[1]]) \o EncodeKeys(v, Tail(keys))

\* Values.Encode(): "k=v&..." sorted by key
Encode(v) == Join(EncodeKeys(v, SortKeys(DOMAIN v)), "&")

(***************************************************************************)
(* The Registry and the inputs of the calls.                               *)
(***************************************************************************)
\* the calls on the Registry
CallIds == {1, 2}

\* a behaviour of Spec runs one upload, probe or mount (the call of Solo); a
\* behaviour of SpecRoundTrip runs an upload (the call of Solo) and then a
\* download (the call of Readers)
Solo == {1}

Readers == {2}

\* registry.URL, the peer's base address
RegistryURL == << "h", "t", "t", "p", ":", "/", "/", "r" >>

\* the repository argument
Repository == << "a" >>

\* digest.String() of the digest argument
DigestText == << "d", ":", "1" >>

DigestKey == << "d", "i", "g", "e", "s", "t" >>

\* registry.url(pathTemplate, args...): the base address followed by the path
RegistryUrl(path) == RegistryURL \o path

InitiatePath ==
  << "/", "v", "2", "/" >> \o Repository
    \o << "/", "b", "l", "o", "b", "s", "/", "u", "p", "l", "o", "a", "d", "s", "/" >>

BlobPath ==
  << "/", "v", "2", "/" >> \o Repository
    \o << "/", "b", "l", "o", "b", "s", "/" >> \o DigestText

\* the fromrepo arguments of MountBlob
FromRepos == { << "b" >>, << "a", "/", "b" >> }

MountKey == << "m", "o", "u", "n", "t" >>

FromKey == << "f", "r", "o", "m" >>

\* "/v2/%s/blobs/uploads/?mount=%s&from=%s" of repository, digest, fromrepo
MountPath(fromrepo) ==
  InitiatePath \o << "?" >> \o MountKey \o << "=" >> \o DigestText
    \o << "&" >> \o FromKey \o << "=" >> \o fromrepo

\* chunkSize := 8096000
chunkSize == 8096000

\* payload lengths of UploadBlobChunked: below, at and above the threshold,
\* exact multiples of the chunk size, and the 20,000,000 bytes of the scenario
Lengths ==
  { k * chunkSize + r :
      k \in 0..MaxChunks, r \in {0, 1, 20000000 % chunkSize, chunkSize - 1} }

\* payload lengths of a direct UploadBlob (it has no threshold)
UploadLengths == {0, 1, chunkSize + 1}

\* what the content argument of UploadBlob is: a *bytes.Buffer, *bytes.Reader
\* or *strings.Reader ("Buffer"), or any other io.Reader ("Reader")
ContentKinds == {"Buffer", "Reader"}

(***************************************************************************)
(* What the peer may answer.                                               *)
(***************************************************************************)
AbsLocation ==
  << "h", "t", "t", "p", ":", "/", "/", "r", "/", "u", "1", "?", "s", "=", "1" >>

\* the session location after the peer rotated it
RotatedLocation ==
  << "h", "t", "t", "p", ":", "/", "/", "r", "/", "u", "2", "?", "s", "=", "2" >>

RelLocation == << "/", "u", "1", "?", "s", "=", "1" >>

\* Header.Get("Location") of a response without the header
NoLocation == << >>

BadLocation == << ":", "u", "1" >>

BadEscapeLocation == << "/", "u", "%", "z", "z" >>

\* Location values of the response to the session-initiation POST
PostLocations ==
  {AbsLocation, RelLocation, NoLocation, BadLocation, BadEscapeLocation}

\* Location values of the response to a partial write
PatchLocations == {AbsLocation, RotatedLocation}

\* statuses the error transport turns into an error
ErrorStatuses == {401, 404, 500}

SuccessStatuses(method) ==
  CASE method = "POST"  -> {201, 202}
    [] method = "PATCH" -> {202}
    [] method = "PUT"   -> {201}
    [] method = "HEAD"  -> {200, 204}
    [] method = "GET"   -> {200}

Locations(method) ==
  CASE method = "POST"  -> PostLocations
    [] method = "PATCH" -> PatchLocations
    [] OTHER            -> {NoLocation}

(***************************************************************************)
(* State.                                                                  *)
(***************************************************************************)
VARIABLES
  pc,         \* pc[c]: where call c stands ("idle", the line of the Client
              \* call it waits in, "done")
  op,         \* op[c]: the operation of call c and its arguments
  uploadUrl,  \* uploadUrl[c]: the local uploadUrl of the upload
  ch,         \* ch[c]: the loop variable of UploadBlobChunked
  req,        \* req[c]: the request the Client is executing for c
  attempt,    \* attempt[c]: how often the transport has sent req[c]
  resp,       \* resp[c]: what the Client call returns: Pending, or (resp, err)
  issued,     \* issued[c]: the requests c handed to registry.Client, in order
  replies,    \* replies[c]: what the Client returned for them, in order
  wire,       \* the requests the peer received, in order, of all calls
  ret,        \* ret[c]: what the call returned, NoRet while it runs
  peer,       \* what the peer stores: the bytes of the writes it accepted
  body        \* body[c]: resp.Body of the response to the GET of call c

vars ==
  << pc, op, uploadUrl, ch, req, attempt, resp, issued, replies, wire, ret,
     peer, body >>

NoOp == [name |-> "none"]

NoReq == [method |-> "none"]

NoRet == [returned |-> FALSE]

Pending == [err |-> "pending"]

NoResp == [err |-> "none"]

\* no response, so no resp.Body
NoBody == [state |-> "none", content |-> << >>, read |-> << >>]

\* the peer holds no upload session and no blob
NoBlob == [present |-> FALSE, content |-> << >>]

\* the blob of the source repository once the peer mounted it: some byte
MountedBlob == [present |-> TRUE, content |-> << [lo |-> 0, hi |-> 1] >>]

Init ==
  /\ pc = [c \in CallIds |-> "idle"]
  /\ op = [c \in CallIds |-> NoOp]
  /\ uploadUrl = [c \in CallIds |-> EmptyURL]
  /\ ch = [c \in CallIds |-> 0]
  /\ req = [c \in CallIds |-> NoReq]
  /\ attempt = [c \in CallIds |-> 0]
  /\ resp = [c \in CallIds |-> NoResp]
  /\ issued = [c \in CallIds |-> << >>]
  /\ replies = [c \in CallIds |-> << >>]
  /\ wire = << >>
  /\ ret = [c \in CallIds |-> NoRet]
  /\ peer = [session |-> [c \in CallIds |-> << >>], blob |-> NoBlob]
  /\ body = [c \in CallIds |-> NoBody]

(***************************************************************************)
(* net/http as blob.go uses it, and the Registry's transport stack.        *)
(***************************************************************************)
\* http.NewRequest(method, url, body) for a body over contBytes[lo:hi]:
\* ContentLength and GetBody are filled in for the buffer types only
NewRequest(method, url, kind, lo, hi) ==
  [method |-> method, url |-> url, hasBody |-> TRUE, kind |-> kind,
   body |-> [lo |-> lo, hi |-> hi],
   ContentLength |-> IF kind = "Buffer" THEN hi - lo ELSE 0,
   GetBody |-> kind = "Buffer",
   ContentType |-> "", ContentLengthHeader |-> << >>, ContentRange |-> << >>]

\* the err of http.NewRequest: the url does not parse
NewRequestErr(url) == Parse(url).err

\* the request of Client.Post(url, contentType, nil) and Client.Head(url)
BodylessRequest(method, url, contentType) ==
  [method |-> method, url |-> url, hasBody |-> FALSE, kind |-> "none",
   body |-> [lo |-> 0, hi |-> 0], ContentLength |-> 0, GetBody |-> FALSE,
   ContentType |-> contentType, ContentLengthHeader |-> << >>,
   ContentRange |-> << >>]

Http == << "h", "t", "t", "p" >>

\* the http transport sends only to an http URL with a host
SendableURL(u) == ~u.err /\ u.url.Scheme = Http /\ u.url.Host # << >>

Sendable(url) == SendableURL(Parse(url))

\* what the peer receives when request r of call c is sent for the k-th time
\* with a body reader that stands at offset off of the body
Transmission(c, r, k, off) ==
  [call |-> c, attempt |-> k, method |-> r.method, url |-> r.url,
   ContentType |-> r.ContentType, ContentLengthHeader |-> r.ContentLengthHeader,
   ContentRange |-> r.ContentRange,
   body |-> [lo |-> r.body.lo + off, hi |-> r.body.hi]]

\* (resp, err) of a Client call whose response has this status: the error
\* transport turns a status >= 400 into an *HttpStatusError, which the Client
\* wraps in a *url.Error
TransportResult(status, location) ==
  IF status >= 400
  THEN [err |-> "url.Error", cause |-> "HttpStatusError", StatusCode |-> status,
        Location |-> location]
  ELSE [err |-> "nil", cause |-> "", StatusCode |-> status, Location |-> location]

\* the err of a Client call that failed without a response
ClientError(cause) ==
  [err |-> "url.Error", cause |-> cause, StatusCode |-> 0, Location |-> << >>]

\* registry.Client.Do(r), up to the request being on its way: the request is
\* sent, or the Client fails at once on a URL it cannot send to
Do(c, r, next) ==
  /\ issued' = [issued EXCEPT ![c] = Append(@, r)]
  /\ req' = [req EXCEPT ![c] = r]
  /\ pc' = [pc EXCEPT ![c] = next]
  /\ IF Sendable(r.url)
     THEN /\ wire' = Append(wire, Transmission(c, r, 1, 0))
          /\ attempt' = [attempt EXCEPT ![c] = 1]
          /\ resp' = [resp EXCEPT ![c] = Pending]
          /\ replies' = replies
     ELSE /\ wire' = wire
          /\ attempt' = [attempt EXCEPT ![c] = 0]
          /\ resp' = [resp EXCEPT ![c] = ClientError("unsupported protocol scheme")]
          /\ replies' = [replies EXCEPT ![c] =
                           Append(@, ClientError("unsupported protocol scheme"))]

\* the Client call of c returns x
Deliver(c, x) ==
  /\ resp' = [resp EXCEPT ![c] = x]
  /\ replies' = [replies EXCEPT ![c] = Append(@, x)]

\* the exchange fails without a response (connection, timeout)
NetworkFailure(c) ==
  /\ resp[c] = Pending
  /\ Deliver(c, ClientError("net"))
  /\ UNCHANGED << pc, op, uploadUrl, ch, req, attempt, issued, wire, ret, peer, body >>

\* the offset of the body reader of the resubmitted request: a fresh reader
\* when the request has a GetBody, else the reader the first send drained
RetryOffset(r) == IF r.GetBody THEN 0 ELSE r.body.hi - r.body.lo

\* the peer answers the first send with an authentication challenge (401 with
\* WWW-Authenticate): the token transport authenticates, obtains the body
\* again and resubmits the request once
PeerChallenge(c) ==
  /\ resp[c] = Pending
  /\ attempt[c] = 1
  /\ wire' = Append(wire, Transmission(c, req[c], 2, RetryOffset(req[c])))
  /\ attempt' = [attempt EXCEPT ![c] = 2]
  /\ UNCHANGED << pc, op, uploadUrl, ch, req, resp, issued, replies, ret, peer, body >>

\* the transmission of the request of call c the peer is answering
InFlight(c) ==
  Transmission(c, req[c], attempt[c],
               IF attempt[c] = 2 THEN RetryOffset(req[c]) ELSE 0)

\* the request asks the peer to mount a blob
IsMount(w) ==
  w.method = "POST" /\ MountKey \in DOMAIN Query(Parse(w.url).url)

\* the peer's store after it accepted the request w of call c: a mounted blob
\* is a blob the peer holds; the bytes of a
\* PATCH go to the end of the upload session of the call, those of the PUT
\* complete it and the session becomes the blob
Accept(c, w) ==
  IF IsMount(w)
  THEN [peer EXCEPT !.blob = IF peer.blob.present THEN @ ELSE MountedBlob]
  ELSE IF w.method = "PATCH"
  THEN [peer EXCEPT !.session[c] = Append(@, w.body)]
  ELSE IF w.method = "PUT"
  THEN [session |-> [peer.session EXCEPT ![c] = << >>],
        blob |-> [present |-> TRUE, content |-> Append(peer.session[c], w.body)]]
  ELSE peer

\* resp.Body of the response with this status to the request of call c: the
\* Body of the response to a GET streams the blob the peer holds
BodyOf(c, status) ==
  IF req[c].method = "GET" /\ status < 400
  THEN [state |-> "open", content |-> peer.blob.content, read |-> << >>]
  ELSE body[c]

\* the peer answers a GET with 200 only for a blob it holds, and with 404
\* only for one it does not hold; it answers a mount it did with 201 Created,
\* the opening of an upload session with 202 Accepted
Truthful(c, status) ==
  /\ req[c].method = "GET" =>
       /\ status = 200 => peer.blob.present
       /\ status = 404 => ~peer.blob.present
  /\ req[c].method = "POST" => (status = 201 <=> IsMount(req[c]))

\* the peer answers the request in flight with a status (and a Location)
PeerRespond(c) ==
  /\ resp[c] = Pending
  /\ \E status \in SuccessStatuses(req[c].method) \cup ErrorStatuses,
        location \in Locations(req[c].method) \cup {NoLocation} :
       /\ status >= 400 => location = NoLocation
       /\ status < 400 => location \in Locations(req[c].method)
       /\ Truthful(c, status)
       /\ Deliver(c, TransportResult(status, location))
       /\ peer' = IF status < 400 THEN Accept(c, InFlight(c)) ELSE peer
       /\ body' = [body EXCEPT ![c] = BodyOf(c, status)]
  /\ UNCHANGED << pc, op, uploadUrl, ch, req, attempt, issued, wire, ret >>

(***************************************************************************)
(* blob.go.                                                                *)
(***************************************************************************)
\* the call returns
Return(c, r) ==
  /\ ret' = [ret EXCEPT ![c] = r]
  /\ pc' = [pc EXCEPT ![c] = "done"]

\* return err / return nil of the upload operations
Err(x) == [returned |-> TRUE, err |-> x.err, cause |-> x.cause]

Nil == [returned |-> TRUE, err |-> "nil", cause |-> ""]

\* if err != nil
Failed(x) == x.err # "nil"

\* initiateUpload, up to registry.Client.Post
InitiatePost(c, next) ==
  Do(c, BodylessRequest("POST", RegistryUrl(InitiatePath),
                        "application/octet-stream"), next)

\* initiateUpload, from url.Parse(location)
LocationResult(locationUrl) ==
  IF locationUrl.err
  THEN [err |-> "url.Error", cause |-> "parse", url |-> EmptyURL]
  ELSE [err |-> "nil", cause |-> "", url |-> locationUrl.url]

\* initiateUpload, from the return of registry.Client.Post: (locationUrl, err)
InitiateResult(x) ==
  IF Failed(x) THEN [err |-> x.err, cause |-> x.cause, url |-> EmptyURL]
  ELSE LocationResult(Parse(x.Location))

\* q := uploadUrl.Query(); q.Set("digest", digest.String());
\* uploadUrl.RawQuery = q.Encode()
WithDigest(u) ==
  [u EXCEPT !.RawQuery = Encode(Set(Query(u), DigestKey, DigestText))]

\* the getBody argument dropped
WithGetBodyIgnored(r, getBody) == r

\* upload.GetBody after http.NewRequest and "if getBody != nil"
WithGetBody(r, getBody) == [r EXCEPT !.GetBody = @ \/ getBody]

\* the PUT of UploadBlob
UploadRequest(url, o) ==
  WithGetBody([NewRequest("PUT", String(url), o.content, 0, o.contLength)
                 EXCEPT !.ContentType = "application/octet-stream"],
              o.getBody)

\* UploadBlob, up to the Client call of initiateUpload
EnterUploadBlob(c, o) ==
  /\ op' = [op EXCEPT ![c] = o]
  /\ InitiatePost(c, "UploadBlob_56")
  /\ UNCHANGED << uploadUrl, ch, ret, peer, body >>

UploadBlob(c) ==
  /\ pc[c] = "idle"
  /\ \E n \in UploadLengths, kind \in ContentKinds, getBody \in BOOLEAN :
       EnterUploadBlob(c, [name |-> "UploadBlob", contLength |-> n,
                           content |-> kind, getBody |-> getBody])

\* UploadBlob, from http.NewRequest to registry.Client.Do; u is the uploadUrl
\* with the digest
UploadBlob_66(c, u) ==
  /\ uploadUrl' = [uploadUrl EXCEPT ![c] = u]
  /\ IF NewRequestErr(String(u))
     THEN /\ Return(c, Err(ClientError("parse")))
          /\ UNCHANGED << op, ch, req, attempt, resp, issued, replies, wire, peer, body >>
     ELSE /\ Do(c, UploadRequest(u, op[c]), "UploadBlob_75")
          /\ UNCHANGED << op, ch, ret, peer, body >>

\* UploadBlob, from "if err != nil" on the result i of initiateUpload
UploadBlob_57(c, i) ==
  IF Failed(i)
  THEN /\ Return(c, Err(i))
       /\ UNCHANGED << op, uploadUrl, ch, req, attempt, resp, issued, replies, wire, peer, body >>
  ELSE UploadBlob_66(c, WithDigest(i.url))

\* UploadBlob, from the return of initiateUpload to registry.Client.Do
UploadBlob_56(c) ==
  /\ pc[c] = "UploadBlob_56"
  /\ resp[c] # Pending
  /\ UploadBlob_57(c, InitiateResult(resp[c]))

\* UploadBlob, from the return of registry.Client.Do
UploadBlob_75(c) ==
  /\ pc[c] = "UploadBlob_75"
  /\ resp[c] # Pending
  /\ Return(c, IF Failed(resp[c]) THEN Err(resp[c]) ELSE Nil)
  /\ UNCHANGED << op, uploadUrl, ch, req, attempt, resp, issued, replies, wire, peer, body >>

\* the threshold test with < for <=
SingleShotStrict(contLength) == contLength < chunkSize

\* if contLength <= chunkSize
SingleShot(contLength) == contLength <= chunkSize

\* the number of full chunks chosen so that the last write is never empty
ChunkNonEmptyTail(contLength) ==
  IF contLength % chunkSize = 0 THEN contLength \div chunkSize - 1
  ELSE contLength \div chunkSize

\* chunk := contLength / chunkSize
Chunk(contLength) == contLength \div chunkSize

\* the remainder taken with / for %
LastChSizeDiv(contLength) == contLength \div chunkSize

\* lastChSize := contLength % chunkSize
LastChSize(contLength) == contLength % chunkSize

\* the PATCH of iteration k with the exclusive end in its Content-Range
PatchRequestExclusiveEnd(url, k) ==
  LET rangeStart == k * chunkSize
      rangeEnd   == rangeStart + chunkSize
      upload     == NewRequest("PATCH", String(url), "Buffer", rangeStart, rangeEnd)
  IN [upload EXCEPT !.ContentType = "application/octet-stream",
                    !.ContentLengthHeader = Itoa(chunkSize),
                    !.ContentRange = SprintfRange(rangeStart, rangeEnd)]

\* the PATCH of iteration k of the loop
PatchRequest(url, k) ==
  LET rangeStart == k * chunkSize
      rangeEnd   == rangeStart + chunkSize
      upload     == NewRequest("PATCH", String(url), "Buffer", rangeStart, rangeEnd)
  IN [upload EXCEPT !.ContentType = "application/octet-stream",
                    !.ContentLengthHeader = Itoa(chunkSize),
                    !.ContentRange = SprintfRange(rangeStart, rangeEnd - 1)]

\* the PUT after the loop with a body that starts at the last full chunk
FinalRequestFromLastChunk(url, contLength) ==
  LET rangeStart == Chunk(contLength) * chunkSize
      rangeEnd   == contLength
      upload     == NewRequest("PUT", String(url), "Buffer",
                               rangeStart - chunkSize, rangeEnd)
  IN [upload EXCEPT !.ContentType = "application/octet-stream",
                    !.ContentLengthHeader = Itoa(LastChSize(contLength)),
                    !.ContentRange = SprintfRange(rangeStart, rangeEnd - 1)]

\* the PUT after the loop; url already carries the digest
FinalRequest(url, contLength) ==
  LET rangeStart == Chunk(contLength) * chunkSize
      rangeEnd   == contLength
      upload     == NewRequest("PUT", String(url), "Buffer", rangeStart, rangeEnd)
  IN [upload EXCEPT !.ContentType = "application/octet-stream",
                    !.ContentLengthHeader = Itoa(LastChSize(contLength)),
                    !.ContentRange = SprintfRange(rangeStart, rangeEnd - 1)]

\* the uploadUrl kept in one place for all calls of the Registry, where the
\* call with the greatest id has put its own
NextUploadUrlShared(url, x) ==
  uploadUrl[CHOOSE c \in CallIds : \A d \in CallIds : d <= c]

\* the url of the next request after a partial write was answered with x
NextUploadUrl(url, x) == url

\* UploadBlobChunked, iteration k of the loop up to registry.Client.Do
PatchStep(c, url, k) ==
  /\ uploadUrl' = [uploadUrl EXCEPT ![c] = url]
  /\ ch' = [ch EXCEPT ![c] = k]
  /\ IF NewRequestErr(String(url))
     THEN /\ Return(c, Err(ClientError("parse")))
          /\ UNCHANGED << op, req, attempt, resp, issued, replies, wire, peer, body >>
     ELSE /\ Do(c, PatchRequest(url, k), "UploadBlobChunked_112")
          /\ UNCHANGED << op, ret, peer, body >>

\* UploadBlobChunked, from http.NewRequest of the PUT to registry.Client.Do;
\* u is the uploadUrl with the digest
FinalStep(c, u, k) ==
  /\ uploadUrl' = [uploadUrl EXCEPT ![c] = u]
  /\ ch' = [ch EXCEPT ![c] = k]
  /\ IF NewRequestErr(String(u))
     THEN /\ Return(c, Err(ClientError("parse")))
          /\ UNCHANGED << op, req, attempt, resp, issued, replies, wire, peer, body >>
     ELSE /\ Do(c, FinalRequest(u, op[c].contLength), "UploadBlobChunked_136")
          /\ UNCHANGED << op, ret, peer, body >>

\* UploadBlobChunked from the loop test "ch < chunk" with ch = k to the next
\* registry.Client.Do: iteration k, or the statements after the loop
ChunkedStep(c, url, k) ==
  IF k < Chunk(op[c].contLength)
  THEN PatchStep(c, url, k)
  ELSE FinalStep(c, WithDigest(url), k)

\* the arguments of UploadBlob when UploadBlobChunked delegates to it:
\* bytes.NewBuffer(contBytes), nil
Chunked(n) ==
  [name |-> "UploadBlobChunked", contLength |-> n, content |-> "Buffer",
   getBody |-> FALSE]

\* UploadBlobChunked, up to the Client call of initiateUpload (its own, or
\* that of the UploadBlob it delegates to)
EnterUploadBlobChunked(c, n) ==
  IF SingleShot(n)
  THEN EnterUploadBlob(c, Chunked(n))
  ELSE /\ op' = [op EXCEPT ![c] = Chunked(n)]
       /\ InitiatePost(c, "UploadBlobChunked_90")
       /\ UNCHANGED << uploadUrl, ch, ret, peer, body >>

UploadBlobChunked(c) ==
  /\ pc[c] = "idle"
  /\ \E n \in Lengths : EnterUploadBlobChunked(c, n)

\* the digest set on uploadUrl before the loop, as UploadBlob sets it
UploadBlobChunked_91DigestFirst(c, i) ==
  IF Failed(i)
  THEN /\ Return(c, Err(i))
       /\ UNCHANGED << op, uploadUrl, ch, req, attempt, resp, issued, replies, wire, peer, body >>
  ELSE ChunkedStep(c, WithDigest(i.url), 0)

\* a second session opened after the first
UploadBlobChunked_91Reopen(c, i) ==
  IF Failed(i)
  THEN /\ Return(c, Err(i))
       /\ UNCHANGED << op, uploadUrl, ch, req, attempt, resp, issued, replies, wire, peer, body >>
  ELSE IF Len(issued[c]) = 1
  THEN /\ InitiatePost(c, "UploadBlobChunked_90")
       /\ UNCHANGED << op, uploadUrl, ch, ret, peer, body >>
  ELSE ChunkedStep(c, i.url, 0)

\* UploadBlobChunked, from "if err != nil" on the result i of initiateUpload
UploadBlobChunked_91(c, i) ==
  IF Failed(i)
  THEN /\ Return(c, Err(i))
       /\ UNCHANGED << op, uploadUrl, ch, req, attempt, resp, issued, replies, wire, peer, body >>
  ELSE ChunkedStep(c, i.url, 0)

\* UploadBlobChunked, from the return of initiateUpload
UploadBlobChunked_90(c) ==
  /\ pc[c] = "UploadBlobChunked_90"
  /\ resp[c] # Pending
  /\ UploadBlobChunked_91(c, InitiateResult(resp[c]))

\* the loop without its "if err != nil"
UploadBlobChunked_112Unchecked(c) ==
  /\ pc[c] = "UploadBlobChunked_112"
  /\ resp[c] # Pending
  /\ ChunkedStep(c, NextUploadUrl(uploadUrl[c], resp[c]), ch[c] + 1)

\* the loop going on to its next request without waiting for the response
UploadBlobChunked_112NoWait(c) ==
  /\ pc[c] = "UploadBlobChunked_112"
  /\ ChunkedStep(c, NextUploadUrl(uploadUrl[c], resp[c]), ch[c] + 1)

\* UploadBlobChunked, from the return of the Client.Do of a PATCH
UploadBlobChunked_112(c) ==
  /\ pc[c] = "UploadBlobChunked_112"
  /\ resp[c] # Pending
  /\ IF Failed(resp[c])
     THEN /\ Return(c, Err(resp[c]))
          /\ UNCHANGED << op, uploadUrl, ch, req, attempt, resp, issued,
                          replies, wire, peer, body >>
     ELSE ChunkedStep(c, NextUploadUrl(uploadUrl[c], resp[c]), ch[c] + 1)

\* UploadBlobChunked, from the return of the Client.Do of the PUT
UploadBlobChunked_136(c) ==
  /\ pc[c] = "UploadBlobChunked_136"
  /\ resp[c] # Pending
  /\ Return(c, IF Failed(resp[c]) THEN Err(resp[c]) ELSE Nil)
  /\ UNCHANGED << op, uploadUrl, ch, req, attempt, resp, issued, replies, wire, peer, body >>

\* HasBlob, from the return of registry.Client.Head: (bool, err)
HasBlobResult(x) ==
  IF x.err = "nil"
  THEN [returned |-> TRUE, value |-> (x.StatusCode = 200), err |-> "nil", cause |-> ""]
  ELSE IF x.err # "url.Error"
  THEN [returned |-> TRUE, value |-> FALSE, err |-> x.err, cause |-> x.cause]
  ELSE IF x.cause # "HttpStatusError"
  THEN [returned |-> TRUE, value |-> FALSE, err |-> x.err, cause |-> x.cause]
  ELSE IF x.StatusCode = 404
  THEN [returned |-> TRUE, value |-> FALSE, err |-> "nil", cause |-> ""]
  ELSE [returned |-> TRUE, value |-> FALSE, err |-> x.err, cause |-> x.cause]

\* HasBlob, up to registry.Client.Head
HasBlob(c) ==
  /\ pc[c] = "idle"
  /\ op' = [op EXCEPT ![c] = [name |-> "HasBlob"]]
  /\ Do(c, BodylessRequest("HEAD", RegistryUrl(BlobPath), ""), "HasBlob_163")
  /\ UNCHANGED << uploadUrl, ch, ret, peer, body >>

HasBlob_163(c) ==
  /\ pc[c] = "HasBlob_163"
  /\ resp[c] # Pending
  /\ Return(c, HasBlobResult(resp[c]))
  /\ UNCHANGED << op, uploadUrl, ch, req, attempt, resp, issued, replies, wire, peer, body >>

\* the bytes acc followed by the bytes of the range s of the payload
AppendBytes(acc, s) ==
  IF s.lo >= s.hi THEN acc
  ELSE IF acc # << >> /\ acc[Len(acc)].hi = s.lo
  THEN [acc EXCEPT ![Len(acc)].hi = s.hi]
  ELSE Append(acc, s)

RECURSIVE ReadAll(_)
\* ioutil.ReadAll(resp.Body): the bytes the stream delivers up to its end, as
\* ranges of the payload they were uploaded from
ReadAll(content) ==
  IF content = << >> THEN << >>
  ELSE AppendBytes(ReadAll(SubSeq(content, 1, Len(content) - 1)),
                   content[Len(content)])

\* DownloadBlob, up to registry.Client.Get
DownloadBlob(c) ==
  /\ pc[c] = "idle"
  /\ op' = [op EXCEPT ![c] = [name |-> "DownloadBlob"]]
  /\ Do(c, BodylessRequest("GET", RegistryUrl(BlobPath), ""), "DownloadBlob_20")
  /\ UNCHANGED << uploadUrl, ch, ret, peer, body >>

\* DownloadBlob without its "if err != nil"
DownloadBlobResultUnchecked(x) ==
  [returned |-> TRUE, stream |-> TRUE, err |-> "nil", cause |-> ""]

\* DownloadBlob, from the return of registry.Client.Get: (io.ReadCloser, err);
\* the stream it returns is resp.Body
DownloadBlobResult(x) ==
  IF Failed(x)
  THEN [returned |-> TRUE, stream |-> FALSE, err |-> x.err, cause |-> x.cause]
  ELSE [returned |-> TRUE, stream |-> TRUE, err |-> "nil", cause |-> ""]

DownloadBlob_20(c) ==
  /\ pc[c] = "DownloadBlob_20"
  /\ resp[c] # Pending
  /\ Return(c, DownloadBlobResult(resp[c]))
  /\ UNCHANGED << op, uploadUrl, ch, req, attempt, resp, issued, replies, wire,
                  peer, body >>

\* the caller of DownloadBlob reads the stream it was given to its end and
\* closes it
ReadToEnd(c) ==
  /\ pc[c] = "done"
  /\ op[c].name = "DownloadBlob"
  /\ ret[c].stream
  /\ body[c].state = "open"
  /\ body' = [body EXCEPT ![c] = [state |-> "closed", content |-> @.content,
                                  read |-> ReadAll(@.content)]]
  /\ UNCHANGED << pc, op, uploadUrl, ch, req, attempt, resp, issued, replies,
                  wire, ret, peer >>

\* GetBlobContent, up to registry.Client.Get
GetBlobContent(c) ==
  /\ pc[c] = "idle"
  /\ op' = [op EXCEPT ![c] = [name |-> "GetBlobContent"]]
  /\ Do(c, BodylessRequest("GET", RegistryUrl(BlobPath), ""), "GetBlobContent_32")
  /\ UNCHANGED << uploadUrl, ch, ret, peer, body >>

\* GetBlobContent, from the return of registry.Client.Get: ([]byte, err);
\* readErr: ioutil.ReadAll fails before the end of the stream
GetBlobContentResult(x, content, readErr) ==
  IF Failed(x)
  THEN [returned |-> TRUE, hasBuf |-> FALSE, buf |-> << >>, err |-> x.err,
        cause |-> x.cause]
  ELSE IF readErr
  THEN [returned |-> TRUE, hasBuf |-> FALSE, buf |-> << >>, err |-> "read",
        cause |-> "read"]
  ELSE [returned |-> TRUE, hasBuf |-> TRUE, buf |-> ReadAll(content),
        err |-> "nil", cause |-> ""]

\* if resp != nil { defer resp.Body.Close() }
CloseBody(b) == IF b.state = "open" THEN [b EXCEPT !.state = "closed"] ELSE b

\* the Body closed only where the buffer is returned
CloseBodyAfterRead(b, r) ==
  IF b.state = "open" /\ r.err = "nil" THEN [b EXCEPT !.state = "closed"] ELSE b

\* the Body at the return r of GetBlobContent
DeferredClose(b, r) == CloseBody(b)

GetBlobContent_32(c) ==
  /\ pc[c] = "GetBlobContent_32"
  /\ resp[c] # Pending
  /\ \E readErr \in BOOLEAN :
       /\ Return(c, GetBlobContentResult(resp[c], body[c].content, readErr))
       /\ body' = [body EXCEPT ![c] = DeferredClose(@, ret'[c])]
  /\ UNCHANGED << op, uploadUrl, ch, req, attempt, resp, issued, replies, wire,
                  peer >>

\* MountBlob, up to registry.Client.Post
MountBlob(c) ==
  /\ pc[c] = "idle"
  /\ \E fromrepo \in FromRepos :
       /\ op' = [op EXCEPT ![c] = [name |-> "MountBlob", fromrepo |-> fromrepo]]
       /\ Do(c, BodylessRequest("POST", RegistryUrl(MountPath(fromrepo)),
                                "application/octet-stream"), "MountBlob_148")
  /\ UNCHANGED << uploadUrl, ch, ret, peer, body >>

\* MountBlob returning nil whatever the Client returned
MountBlobResultForgetful(x) == Nil

\* MountBlob, from the return of registry.Client.Post: err
MountBlobResult(x) == IF Failed(x) THEN Err(x) ELSE Nil

MountBlob_148(c) ==
  /\ pc[c] = "MountBlob_148"
  /\ resp[c] # Pending
  /\ Return(c, MountBlobResult(resp[c]))
  /\ UNCHANGED << op, uploadUrl, ch, req, attempt, resp, issued, replies, wire,
                  peer, body >>

(***************************************************************************)
(* The specification.                                                      *)
(***************************************************************************)
Next ==
  \E c \in Solo :
    \/ UploadBlob(c)
    \/ UploadBlob_56(c)
    \/ UploadBlob_75(c)
    \/ UploadBlobChunked(c)
    \/ UploadBlobChunked_90(c)
    \/ UploadBlobChunked_112(c)
    \/ UploadBlobChunked_136(c)
    \/ HasBlob(c)
    \/ HasBlob_163(c)
    \/ MountBlob(c)
    \/ MountBlob_148(c)
    \/ PeerRespond(c)
    \/ PeerChallenge(c)
    \/ NetworkFailure(c)

Spec == Init /\ [][Next]_vars

\* the location of the upload session the peer opens for call c
SessionLocation(c) ==
  RegistryURL \o << "/", "u" >> \o Itoa(c) \o << "?", "s", "=" >> \o Itoa(c)

\* the peer accepts the request in flight of call c and names the session of
\* the call in its response, or refuses it with 500
PeerServe(c) ==
  /\ resp[c] = Pending
  /\ \E status \in SuccessStatuses(req[c].method) \cup {500} :
       /\ Truthful(c, status)
       /\ Deliver(c, TransportResult(status,
                     IF status < 400 /\ req[c].method \in {"POST", "PATCH"}
                     THEN SessionLocation(c) ELSE NoLocation))
       /\ peer' = IF status < 400 THEN Accept(c, InFlight(c)) ELSE peer
  /\ UNCHANGED << pc, op, uploadUrl, ch, req, attempt, issued, wire, ret, body >>

(***************************************************************************)
(* Upload, then download: the call of Solo is an UploadBlobChunked, which  *)
(* the peer serves, challenges or fails; when it has returned, the call of *)
(* Readers downloads the blob.                                             *)
(***************************************************************************)
\* the caller makes the call of Readers when the call of Solo has returned
Sequential == \A u \in Solo : pc[u] = "done"

NextRoundTrip ==
  \/ \E c \in Solo :
       \/ UploadBlobChunked(c)
       \/ UploadBlob_56(c)
       \/ UploadBlob_75(c)
       \/ UploadBlobChunked_90(c)
       \/ UploadBlobChunked_112(c)
       \/ UploadBlobChunked_136(c)
       \/ PeerServe(c)
  \/ \E c \in Readers :
       \/ Sequential /\ DownloadBlob(c)
       \/ DownloadBlob_20(c)
       \/ ReadToEnd(c)
       \/ Sequential /\ GetBlobContent(c)
       \/ GetBlobContent_32(c)
       \/ PeerRespond(c)
  \/ \E c \in CallIds :
       \/ PeerChallenge(c)
       \/ NetworkFailure(c)

SpecRoundTrip == Init /\ [][NextRoundTrip]_vars

(***************************************************************************)
(* Concurrent uploads: every call of CallIds is an UploadBlobChunked, the   *)
(* calls run interleaved, and the peer gives each call a session of its    *)
(* own.                                                                    *)
(***************************************************************************)
\* the payload lengths of the concurrent uploads: a single write, one partial
\* write and a remainder, and MaxChunks partial writes
ConcurrentLengths == {chunkSize, chunkSize + 1, MaxChunks * chunkSize}

\* UploadBlobChunked called while other calls run
ConcurrentUploadBlobChunked(c) ==
  /\ pc[c] = "idle"
  /\ \E n \in ConcurrentLengths : EnterUploadBlobChunked(c, n)

NextConcurrent ==
  \E c \in CallIds :
    \/ ConcurrentUploadBlobChunked(c)
    \/ UploadBlob_56(c)
    \/ UploadBlob_75(c)
    \/ UploadBlobChunked_90(c)
    \/ UploadBlobChunked_112(c)
    \/ UploadBlobChunked_136(c)
    \/ PeerServe(c)

SpecConcurrent == Init /\ [][NextConcurrent]_vars

(***************************************************************************)
(* What the claims speak of: the requests of a call, read as the peer      *)
(* reads them (the headers parsed back into numbers).                      *)
(***************************************************************************)
IsPatch(r) == r.method = "PATCH"

IsPut(r) == r.method = "PUT"

IsWrite(r) == r.method \in {"PATCH", "PUT"}

\* the partial writes, the finalizing writes and all writes call c issued
Patches(c) == SelectSeq(issued[c], IsPatch)

Puts(c) == SelectSeq(issued[c], IsPut)

Writes(c) == SelectSeq(issued[c], IsWrite)

\* call c is a chunked upload: its payload is longer than the threshold
IsChunked(c) == op[c].name = "UploadBlobChunked" /\ op[c].contLength > chunkSize

\* call c is an upload UploadBlobChunked does in a single write
IsSingle(c) == op[c].name = "UploadBlobChunked" /\ op[c].contLength <= chunkSize

IsUpload(c) == op[c].name \in {"UploadBlob", "UploadBlobChunked"}

\* call c returned nil
Succeeded(c) == ret[c].returned /\ ret[c].err = "nil"

IsNumber(s) == s # << >> /\ \A i \in 1..Len(s) : IsDigit(s[i])

DigitValue(d) == CHOOSE v \in 0..9 : Digits[v + 1] = d

RECURSIVE AtoiNat(_)
\* the number a decimal numeral denotes
AtoiNat(s) ==
  IF s = << >> THEN 0
  ELSE AtoiNat(SubSeq(s, 1, Len(s) - 1)) * 10 + DigitValue(s[Len(s)])

\* a Content-Range value "first-last" as the peer reads it
RangeAt(s, i) ==
  IF i > 1 /\ IsNumber(SubSeq(s, 1, i - 1)) /\ IsNumber(Tail2(s, i + 1))
  THEN [ok |-> TRUE, first |-> AtoiNat(SubSeq(s, 1, i - 1)),
        last |-> AtoiNat(Tail2(s, i + 1))]
  ELSE [ok |-> FALSE, first |-> 0, last |-> 0]

RangeOf(s) == RangeAt(s, IndexOf(s, "-"))

\* the query parameters of the URL a request targets
QueryOf(r) == Query(Parse(r.url).url)

\* the request carries the digest query parameter
HasDigest(r) == DigestKey \in DOMAIN QueryOf(r)

\* the request carries the digest of the call as its digest query parameter
CarriesDigest(r) == HasDigest(r) /\ QueryOf(r)[DigestKey] = << DigestText >>

\* C1: a chunked upload issues at most floor(length / chunkSize) partial
\* writes, exactly that many when it succeeds, and the k-th of them (k from 0)
\* carries the chunkSize bytes [k*chunkSize, (k+1)*chunkSize) with
\* Content-Length chunkSize and Content-Range k*chunkSize-((k+1)*chunkSize - 1):
\* the ranges start at 0 and each continues where the one before ended.
C1_PartialWrites ==
  \A c \in CallIds :
    IsChunked(c) =>
      /\ Len(Patches(c)) <= op[c].contLength \div chunkSize
      /\ Succeeded(c) => Len(Patches(c)) = op[c].contLength \div chunkSize
      /\ \A k \in 1..Len(Patches(c)) :
           /\ Patches(c)[k].body = [lo |-> (k - 1) * chunkSize, hi |-> k * chunkSize]
           /\ Patches(c)[k].ContentLength = chunkSize
           /\ IsNumber(Patches(c)[k].ContentLengthHeader)
           /\ AtoiNat(Patches(c)[k].ContentLengthHeader) = chunkSize
           /\ RangeOf(Patches(c)[k].ContentRange) =
                [ok |-> TRUE, first |-> (k - 1) * chunkSize, last |-> k * chunkSize - 1]
           /\ k = 1 => RangeOf(Patches(c)[k].ContentRange).first = 0
           /\ k > 1 => RangeOf(Patches(c)[k].ContentRange).first =
                         RangeOf(Patches(c)[k - 1].ContentRange).last + 1

\* the 20,000,000-byte upload succeeded with the two partial writes 0-8095999
\* and 8096000-16191999
C1_Witness ==
  \E c \in CallIds :
    /\ IsChunked(c) /\ Succeeded(c) /\ op[c].contLength = 20000000
    /\ Len(Patches(c)) = 2
    /\ Patches(c)[1].ContentRange = << "0", "-", "8", "0", "9", "5", "9", "9", "9" >>
    /\ Patches(c)[2].ContentRange =
         << "8", "0", "9", "6", "0", "0", "0", "-",
            "1", "6", "1", "9", "1", "9", "9", "9" >>

\* C2: the finalizing PUT of a chunked upload carries the length mod chunkSize
\* bytes that remain, a Content-Length equal to that remainder, the digest
\* query parameter, and a Content-Range from the byte after the last partial
\* write's inclusive end to length - 1.
C2_FinalWrite ==
  \A c \in CallIds :
    IsChunked(c) =>
      \A j \in 1..Len(Puts(c)) :
        /\ Patches(c) # << >>
        /\ Puts(c)[j].body.hi - Puts(c)[j].body.lo = op[c].contLength % chunkSize
        /\ Puts(c)[j].body.hi = op[c].contLength
        /\ Puts(c)[j].ContentLength = op[c].contLength % chunkSize
        /\ IsNumber(Puts(c)[j].ContentLengthHeader)
        /\ AtoiNat(Puts(c)[j].ContentLengthHeader) = op[c].contLength % chunkSize
        /\ CarriesDigest(Puts(c)[j])
        /\ RangeOf(Puts(c)[j].ContentRange) =
             [ok |-> TRUE,
              first |-> RangeOf(Patches(c)[Len(Patches(c))].ContentRange).last + 1,
              last |-> op[c].contLength - 1]
        /\ Puts(c)[j].body.lo =
             RangeOf(Patches(c)[Len(Patches(c))].ContentRange).last + 1

\* the 20,000,000-byte upload succeeded and its PUT carried the 3,808,000
\* bytes 16192000-19999999
C2_Witness ==
  \E c \in CallIds :
    /\ IsChunked(c) /\ Succeeded(c) /\ op[c].contLength = 20000000
    /\ Len(Puts(c)) = 1
    /\ Puts(c)[1].ContentLengthHeader = << "3", "8", "0", "8", "0", "0", "0" >>
    /\ Puts(c)[1].ContentRange =
         << "1", "6", "1", "9", "2", "0", "0", "0", "-",
            "1", "9", "9", "9", "9", "9", "9", "9" >>
    /\ Puts(c)[1].body = [lo |-> 16192000, hi |-> 20000000]

\* C3: for a payload no longer than the threshold (also of exactly the
\* threshold, also empty) UploadBlobChunked issues no PATCH and at most one
\* write, a PUT that carries the full payload and the digest query parameter;
\* once the session is open it issues that PUT, so a successful call has issued
\* exactly one write.
C3_SingleShot ==
  \A c \in CallIds :
    IsSingle(c) =>
      /\ Patches(c) = << >>
      /\ Len(Writes(c)) <= 1
      /\ \A j \in 1..Len(Writes(c)) :
           /\ Writes(c)[j].method = "PUT"
           /\ Writes(c)[j].body = [lo |-> 0, hi |-> op[c].contLength]
           /\ Writes(c)[j].ContentLength = op[c].contLength
           /\ CarriesDigest(Writes(c)[j])
      /\ Succeeded(c) => Len(Writes(c)) = 1
      /\ (Len(replies[c]) >= 1 /\ replies[c][1].err = "nil"
            /\ ~Parse(replies[c][1].Location).err /\ pc[c] # "UploadBlob_56")
           => Len(Writes(c)) = 1

\* the upload of a payload of exactly chunkSize bytes succeeded with one PUT
C3_Witness ==
  \E c \in CallIds :
    /\ IsSingle(c) /\ Succeeded(c) /\ op[c].contLength = chunkSize
    /\ Len(issued[c]) = 2
    /\ issued[c][2].method = "PUT"
    /\ issued[c][2].body = [lo |-> 0, hi |-> chunkSize]

\* the query parameters of a URL other than the digest
SessionQuery(u) == [k \in DOMAIN Query(u) \ {DigestKey} |-> Query(u)[k]]

SameURL(u, l) ==
  /\ u.Scheme = l.Scheme /\ u.Host = l.Host /\ u.Path = l.Path
  /\ SessionQuery(u) = Query(l)

\* the request URL url designates the session location text location
SameSession(url, location) == SameURL(Parse(url).url, Parse(location).url)

\* C4: in a chunked upload every write after the first is addressed to the
\* session location the response to the write before it returned.
C4_FreshLocation ==
  \A c \in CallIds :
    IsChunked(c) =>
      \A j \in 3..Len(issued[c]) :
        IsWrite(issued[c][j]) =>
          SameSession(issued[c][j].url, replies[c][j - 1].Location)

\* the requests of call c that carry the digest query parameter
Finalizations(c) == { j \in 1..Len(issued[c]) : HasDigest(issued[c][j]) }

\* C5: a request of an upload that carries the digest query parameter is a PUT
\* and the last request of the call (so no PATCH carries the digest); a
\* successful upload has issued exactly one such request, and the peer
\* accepted it.
C5_OneFinalization ==
  \A c \in CallIds :
    IsUpload(c) =>
      /\ \A j \in Finalizations(c) :
           /\ issued[c][j].method = "PUT"
           /\ j = Len(issued[c])
           /\ CarriesDigest(issued[c][j])
      /\ \A j \in 1..Len(issued[c]) : IsPatch(issued[c][j]) => ~HasDigest(issued[c][j])
      /\ Succeeded(c) =>
           /\ Cardinality(Finalizations(c)) = 1
           /\ Len(replies[c]) = Len(issued[c])
           /\ replies[c][Len(issued[c])].err = "nil"

\* a chunked upload succeeded: POST, two PATCHes without the digest, and the
\* PUT with it
C5_Witness ==
  \E c \in CallIds :
    /\ IsChunked(c) /\ Succeeded(c)
    /\ Len(issued[c]) = 4
    /\ IsPatch(issued[c][2]) /\ ~HasDigest(issued[c][2])
    /\ IsPatch(issued[c][3]) /\ ~HasDigest(issued[c][3])
    /\ IsPut(issued[c][4]) /\ CarriesDigest(issued[c][4])

\* the requests of call c the peer received
Received(c) == SelectSeq(wire, LAMBDA w : w.call = c)

\* C6: a request of an upload that got a non-success response (or failed) is
\* the last request the call issues and the last the peer receives from it,
\* and the call returns an error; an upload issues nothing but its POST, PATCH
\* and PUT requests.
C6_AbortOnFailure ==
  \A c \in CallIds :
    IsUpload(c) =>
      /\ \A j \in 1..Len(issued[c]) : issued[c][j].method \in {"POST", "PATCH", "PUT"}
      /\ \A j \in 1..Len(replies[c]) :
           replies[c][j].err # "nil" =>
             /\ j = Len(issued[c])
             /\ pc[c] = "done" => (ret[c].returned /\ ret[c].err # "nil")
             /\ pc[c] # "done" => (resp[c] = replies[c][j] /\ ~ret[c].returned)
             /\ Sendable(issued[c][j].url) =>
                  /\ Received(c) # << >>
                  /\ Received(c)[Len(Received(c))].method = issued[c][j].method
                  /\ Received(c)[Len(Received(c))].url = issued[c][j].url
             /\ ~Sendable(issued[c][j].url) =>
                  \A i \in 1..Len(Received(c)) :
                    Received(c)[i].url # issued[c][j].url

\* the first partial write of an upload of two chunks or more was answered
\* with 500: the call returned the error having issued the POST and one PATCH
C6_Witness ==
  \E c \in CallIds :
    /\ IsChunked(c) /\ op[c].contLength >= 2 * chunkSize
    /\ pc[c] = "done" /\ ret[c].returned /\ ret[c].err # "nil"
    /\ Len(issued[c]) = 2 /\ IsPatch(issued[c][2])
    /\ replies[c][2].StatusCode = 500
    /\ Len(Received(c)) = 2

\* C7: HasBlob returns (true, nil) on success, (false, nil) on not found, and
\* an error on every other status or failure.
C7_ThreeOutcomes ==
  \A c \in CallIds :
    (op[c].name = "HasBlob" /\ pc[c] = "done") =>
      /\ (replies[c][1].err = "nil" /\ replies[c][1].StatusCode = 200) =>
           (ret[c].value /\ ret[c].err = "nil")
      /\ replies[c][1].StatusCode = 404 => (~ret[c].value /\ ret[c].err = "nil")
      /\ replies[c][1].StatusCode \notin {200, 404} => ret[c].err # "nil"

\* C8: when the response to the session-initiation POST has no Location header
\* or one that does not parse, the upload fails without issuing a PATCH or PUT.
C8_LocationRequired ==
  \A c \in CallIds :
    ( /\ IsUpload(c)
      /\ Len(replies[c]) >= 1
      /\ replies[c][1].err = "nil"
      /\ replies[c][1].Location = NoLocation \/ Parse(replies[c][1].Location).err )
    => /\ Len(issued[c]) = 1
       /\ pc[c] = "done" => ret[c].err # "nil"

\* a Location value that is a relative reference
IsRelative(location) ==
  /\ location # << >>
  /\ ~Parse(location).err
  /\ Parse(location).url.Scheme = << >>

\* C9: when the session location the peer returned is relative, every PATCH
\* and PUT of the upload targets an absolute URL on the peer.
C9_AbsoluteTarget ==
  \A c \in CallIds :
    ( /\ IsUpload(c)
      /\ Len(replies[c]) >= 1
      /\ replies[c][1].err = "nil"
      /\ IsRelative(replies[c][1].Location) )
    => \A j \in 1..Len(issued[c]) :
         IsWrite(issued[c][j]) =>
           /\ HasPrefix(issued[c][j].url, RegistryURL)
           /\ Sendable(issued[c][j].url)

\* the send before wire[i] of the same call
PreviousSend(i) ==
  CHOOSE j \in 1..(i - 1) :
    /\ wire[j].call = wire[i].call
    /\ \A k \in (j + 1)..(i - 1) : wire[k].call # wire[i].call

\* wire[i] resubmits the request sent before it, its body from offset 0
IsResubmission(i) ==
  /\ i > 1
  /\ \E j \in 1..(i - 1) : wire[j].call = wire[i].call
  /\ wire[PreviousSend(i)].attempt = 1
  /\ wire[i] = [wire[PreviousSend(i)] EXCEPT !.attempt = 2]

\* C10, as claimed: after an authentication challenge on a write request the
\* transport resubmits the identical request once, with the same body from
\* offset 0, for every byte source (also a reader that cannot be rewound,
\* passed with a nil getBody).
C10_AnySource ==
  \A i \in 1..Len(wire) :
    /\ wire[i].attempt \in {1, 2}
    /\ (wire[i].attempt = 2 /\ IsWrite(wire[i])) => IsResubmission(i)

\* the write requests of call c can be given a fresh body: its content is one
\* of the buffer types, or the caller passed a getBody
HasBodySupplier(c) ==
  \/ op[c].name = "UploadBlobChunked"
  \/ op[c].name = "UploadBlob" /\ (op[c].content = "Buffer" \/ op[c].getBody)

\* C10, amended: the same, for the write requests that have a body supplier.
C10_Resubmission ==
  \A i \in 1..Len(wire) :
    /\ wire[i].attempt \in {1, 2}
    /\ (wire[i].attempt = 2 /\ IsWrite(wire[i]) /\ HasBodySupplier(wire[i].call))
         => IsResubmission(i)

\* the PUT of an UploadBlob whose content is a plain reader passed with a
\* getBody was challenged and resubmitted with all its bytes
C10_Witness ==
  \E i \in 1..Len(wire) :
    /\ wire[i].attempt = 2 /\ wire[i].method = "PUT"
    /\ op[wire[i].call].name = "UploadBlob"
    /\ op[wire[i].call].content = "Reader" /\ op[wire[i].call].getBody
    /\ wire[i].body = [lo |-> 0, hi |-> chunkSize + 1]
    /\ wire[i - 1].body = wire[i].body

\* the bytes of a payload of n bytes, from the first to the last
Whole(n) == IF n = 0 THEN << >> ELSE << [lo |-> 0, hi |-> n] >>

\* the bodies of the writes call c issued, in the order of the writes
WrittenBytes(c) == ReadAll([k \in 1..Len(Writes(c)) |-> Writes(c)[k].body])

\* C11: when UploadBlobChunked has succeeded, the bodies of its writes taken in
\* order are the payload, every byte once; the blob the peer stored from the
\* writes it accepted is the payload; and what DownloadBlob's stream delivers
\* when read to its end, or GetBlobContent returns, is the payload, byte for byte.
C11_RoundTrip ==
  \A u \in CallIds :
    (op[u].name = "UploadBlobChunked" /\ Succeeded(u)) =>
      /\ WrittenBytes(u) = Whole(op[u].contLength)
      /\ \A k \in 2..Len(Writes(u)) : Writes(u)[k].body.lo = Writes(u)[k - 1].body.hi
      /\ peer.blob.present
      /\ ReadAll(peer.blob.content) = Whole(op[u].contLength)
      /\ \A d \in CallIds :
           /\ (op[d].name = "DownloadBlob" /\ body[d].state = "closed")
                => body[d].read = Whole(op[u].contLength)
           /\ (op[d].name = "GetBlobContent" /\ Succeeded(d))
                => (ret[d].hasBuf /\ ret[d].buf = Whole(op[u].contLength))

\* the 20,000,000 bytes uploaded in two partial writes and a PUT were
\* downloaded by DownloadBlob and read to the end
C11_Witness ==
  \E u \in CallIds, d \in CallIds :
    /\ op[u].name = "UploadBlobChunked" /\ Succeeded(u)
    /\ op[u].contLength = 20000000
    /\ Len(peer.blob.content) = 3
    /\ op[d].name = "DownloadBlob" /\ body[d].state = "closed"
    /\ body[d].read = << [lo |-> 0, hi |-> 20000000] >>

\* C12: when GetBlobContent has returned (the buffer, the error of the
\* transport, or the error of a read that failed before the end of the stream)
\* the Body of the response the transport handed it, if it handed it one, is
\* closed.
C12_BodyClosed ==
  \A c \in CallIds :
    (op[c].name = "GetBlobContent" /\ pc[c] = "done") =>
      /\ ret[c].returned
      /\ body[c].state # "open"
      /\ replies[c][1].err = "nil" => body[c].state = "closed"
      /\ ret[c].err = "read" => (replies[c][1].err = "nil" /\ ~ret[c].hasBuf)
      /\ ret[c].hasBuf <=> ret[c].err = "nil"

\* GetBlobContent got the response with the blob, the read failed before the
\* end of the stream, and it returned the read error with the Body closed
C12_Witness ==
  \E c \in CallIds :
    /\ op[c].name = "GetBlobContent" /\ pc[c] = "done"
    /\ replies[c][1].err = "nil" /\ replies[c][1].StatusCode = 200
    /\ ret[c].err = "read"
    /\ body[c].state = "closed" /\ body[c].content # << >>

\* C13: DownloadBlob of a blob the peer does not hold (the peer answers not
\* found) returns an error and no stream; it returns a stream, with a nil
\* error, only when the peer answered the GET with success for a blob it holds.
C13_NotFound ==
  \A c \in CallIds :
    (op[c].name = "DownloadBlob" /\ pc[c] = "done") =>
      /\ replies[c][1].StatusCode = 404 =>
           (ret[c].err # "nil" /\ ~ret[c].stream /\ body[c].state = "none")
      /\ ~peer.blob.present => (ret[c].err # "nil" /\ ~ret[c].stream)
      /\ ret[c].stream <=> ret[c].err = "nil"
      /\ ret[c].stream =>
           (replies[c][1].err = "nil" /\ replies[c][1].StatusCode = 200)

\* the upload failed, so the peer holds no blob; it answered the GET of
\* DownloadBlob with 404, and DownloadBlob returned that error and no stream
C13_Witness ==
  \E c \in CallIds :
    /\ op[c].name = "DownloadBlob" /\ pc[c] = "done"
    /\ ~peer.blob.present
    /\ replies[c][1].StatusCode = 404
    /\ ret[c].err = "url.Error" /\ ret[c].cause = "HttpStatusError"
    /\ ~ret[c].stream

\* C14: MountBlob issues one request and no more: a POST without a body to the
\* uploads URL of the repository whose query carries the digest as mount and
\* the source repository as from; it issues no GET and no HEAD. It returns nil
\* exactly when the peer acknowledged the POST, and otherwise the error of the
\* transport.
C14_MountOnly ==
  \A c \in CallIds :
    (op[c].name = "MountBlob") =>
      /\ Len(issued[c]) = 1
      /\ issued[c][1].method = "POST"
      /\ ~issued[c][1].hasBody
      /\ issued[c][1].body.hi = issued[c][1].body.lo
      /\ issued[c][1].ContentLength = 0
      /\ Parse(issued[c][1].url).url.Path = InitiatePath
      /\ HasPrefix(issued[c][1].url, RegistryURL)
      /\ QueryOf(issued[c][1]) =
           (MountKey :> << DigestText >>) @@ (FromKey :> << op[c].fromrepo >>)
      /\ \A i \in 1..Len(Received(c)) :
           /\ Received(c)[i].method = "POST"
           /\ Received(c)[i].body.hi = Received(c)[i].body.lo
      /\ pc[c] = "done" =>
           /\ Len(replies[c]) = 1
           /\ ret[c].err = "nil" <=> replies[c][1].err = "nil"
           /\ ret[c].err # "nil" =>
                (ret[c].err = replies[c][1].err /\ ret[c].cause = replies[c][1].cause)

\* the peer acknowledged the mount from repository a/b with 201 and MountBlob
\* returned nil having issued the one POST
C14_Witness ==
  \E c \in CallIds :
    /\ op[c].name = "MountBlob" /\ op[c].fromrepo = << "a", "/", "b" >>
    /\ pc[c] = "done" /\ ret[c].err = "nil"
    /\ replies[c][1].StatusCode = 201
    /\ Len(Received(c)) = 1
    /\ peer.blob.present

\* the number of requests an upload of n bytes issues when none is refused
TotalRequests(n) == IF n <= chunkSize THEN 2 ELSE n \div chunkSize + 2

\* how many requests of call c the peer accepted
AcceptedOf(c) ==
  Cardinality({ j \in 1..Len(replies[c]) : replies[c][j].err = "nil" })

\* the j-th request (j >= 2) of an upload of n bytes running alone, as far as
\* the payload decides it: the method and the bytes
IsOwnWrite(r, j, n) ==
  IF n > chunkSize /\ j - 1 <= n \div chunkSize
  THEN /\ r.method = "PATCH"
       /\ r.body = [lo |-> (j - 2) * chunkSize, hi |-> (j - 1) * chunkSize]
       /\ RangeOf(r.ContentRange).first = (j - 2) * chunkSize
       /\ ~HasDigest(r)
  ELSE /\ r.method = "PUT"
       /\ r.body = [lo |-> IF n > chunkSize THEN (n \div chunkSize) * chunkSize ELSE 0,
                    hi |-> n]
       /\ CarriesDigest(r)

\* C15: with the uploads of all calls interleaved, every write of a call goes
\* to the session location the response to that call's own POST named, and to
\* no other call's; the requests of a call are those the call issues alone for
\* its payload and the responses it got itself (its POST, then its partial
\* writes with its own ranges in order, then its PUT, up to the first request
\* refused); and the peer received them in that order.
C15_OwnSession ==
  \A c \in CallIds :
    IsUpload(c) =>
      /\ issued[c][1] = BodylessRequest("POST", RegistryUrl(InitiatePath),
                                        "application/octet-stream")
      /\ Len(issued[c]) <= TotalRequests(op[c].contLength)
      /\ Len(issued[c]) \in {AcceptedOf(c), AcceptedOf(c) + 1}
      /\ pc[c] = "done" =>
           Len(issued[c]) = IF Succeeded(c) THEN TotalRequests(op[c].contLength)
                            ELSE AcceptedOf(c) + 1
      /\ ch[c] = IF Len(Patches(c)) = 0 THEN 0
                 ELSE Len(Patches(c)) - 1 + Len(Puts(c))
      /\ \A j \in 2..Len(issued[c]) :
           /\ IsOwnWrite(issued[c][j], j, op[c].contLength)
           /\ SameSession(issued[c][j].url, replies[c][1].Location)
           /\ \A d \in CallIds \ {c} :
                ~SameSession(issued[c][j].url, SessionLocation(d))
      /\ Len(Received(c)) = Len(issued[c])
      /\ \A j \in 1..Len(issued[c]) :
           Received(c)[j] = Transmission(c, issued[c][j], 1, 0)

\* two chunked uploads of different lengths ran interleaved, the peer got a
\* write of the second between two writes of the first, and both succeeded
C15_Witness ==
  /\ \A c \in CallIds : IsChunked(c) /\ Succeeded(c)
  /\ op[1].contLength = MaxChunks * chunkSize
  /\ op[2].contLength = chunkSize + 1
  /\ \E i, j, k \in 1..Len(wire) :
       /\ i < j /\ j < k
       /\ wire[i].call = 1 /\ wire[i].method = "PATCH"
       /\ wire[j].call = 2 /\ wire[j].method = "PATCH"
       /\ wire[k].call = 1 /\ wire[k].method = "PATCH"

\* the first sends of the requests of call c the peer received
FirstSends(c) == SelectSeq(Received(c), LAMBDA w : w.attempt = 1)

\* C16: an upload has at most one request in flight: every request but the
\* last it issued has been answered, so the POST was answered before the first
\* write was issued and every write was issued after the response to the
\* request before it; the last request is in flight exactly while the call
\* waits for it.
C16_OneInFlight ==
  \A c \in CallIds :
    IsUpload(c) =>
      /\ Len(issued[c]) - Len(replies[c]) \in {0, 1}
      /\ Len(issued[c]) - Len(replies[c]) = 1 <=> resp[c] = Pending
      /\ resp[c] = Pending => (~ret[c].returned /\ req[c] = issued[c][Len(issued[c])])
      /\ Len(FirstSends(c)) <= Len(replies[c]) + 1
      /\ \A j \in 2..Len(issued[c]) : replies[c][j - 1].err = "nil"

\* the second partial write is in flight; the POST and the first partial
\* write have been answered
C16_Witness ==
  \E c \in CallIds :
    /\ IsChunked(c)
    /\ Len(issued[c]) = 3 /\ IsPatch(issued[c][2]) /\ IsPatch(issued[c][3])
    /\ Len(replies[c]) = 2
    /\ resp[c] = Pending

\* the requests of call c that ask for an upload session
Initiations(c) ==
  { j \in 1..Len(issued[c]) : issued[c][j].method = "POST" }

\* C17: the first request of an upload is the POST that opens the upload
\* session and the upload issues no other POST, so every PATCH and PUT comes
\* after it and the peer opens at most one session for the call, exactly one
\* for a call that succeeds; a chunked upload that succeeds has issued the
\* POST, then floor(length / chunkSize) PATCHes, then one PUT, and nothing else.
C17_OneSession ==
  \A c \in CallIds :
    IsUpload(c) =>
      /\ Initiations(c) = {1}
      /\ issued[c][1].url = RegistryUrl(InitiatePath)
      /\ ~issued[c][1].hasBody
      /\ Cardinality({ j \in Initiations(c) :
                         j <= Len(replies[c]) /\ replies[c][j].err = "nil" }) <= 1
      /\ Succeeded(c) => replies[c][1].err = "nil"
      /\ (IsChunked(c) /\ Succeeded(c)) =>
           /\ Len(issued[c]) = op[c].contLength \div chunkSize + 2
           /\ \A j \in 2..(Len(issued[c]) - 1) : issued[c][j].method = "PATCH"
           /\ issued[c][Len(issued[c])].method = "PUT"
           /\ Len(FirstSends(c)) = Len(issued[c])
           /\ \A j \in 1..Len(issued[c]) :
                FirstSends(c)[j].method = issued[c][j].method

\* the upload of chunkSize + 1 bytes succeeded with a POST, one PATCH and the
\* PUT, which the peer received in this order
C17_Witness ==
  \E c \in CallIds :
    /\ IsChunked(c) /\ Succeeded(c) /\ op[c].contLength = chunkSize + 1
    /\ Len(issued[c]) = 3
    /\ issued[c][1].method = "POST"
    /\ issued[c][2].method = "PATCH"
    /\ issued[c][3].method = "PUT"
    /\ Len(Received(c)) = 3

\* the bodies of the partial writes call c issued, in the order of the writes
PatchedBytes(c) == ReadAll([k \in 1..Len(Patches(c)) |-> Patches(c)[k].body])

\* C18: when the length of the payload is above the threshold and a multiple
\* of chunkSize, the partial writes issued before the PUT carry all of
\* [0, length), and the PUT carries no bytes: an empty body, Content-Length 0,
\* and the digest.
C18_EmptyFinalWrite ==
  \A c \in CallIds :
    (IsChunked(c) /\ op[c].contLength % chunkSize = 0) =>
      \A j \in 1..Len(Puts(c)) :
        /\ PatchedBytes(c) = Whole(op[c].contLength)
        /\ Puts(c)[j].body = [lo |-> op[c].contLength, hi |-> op[c].contLength]
        /\ Puts(c)[j].ContentLength = 0
        /\ Puts(c)[j].ContentLengthHeader = << "0" >>
        /\ CarriesDigest(Puts(c)[j])
        /\ \A i \in 1..Len(Received(c)) :
             Received(c)[i].method = "PUT" =>
               Received(c)[i].body.hi = Received(c)[i].body.lo

\* the upload of 16,192,000 bytes succeeded with two partial writes and a PUT
\* without bytes
C18_Witness ==
  \E c \in CallIds :
    /\ IsChunked(c) /\ Succeeded(c) /\ op[c].contLength = 2 * chunkSize
    /\ Len(Patches(c)) = 2
    /\ Len(Puts(c)) = 1
    /\ Puts(c)[1].body.hi - Puts(c)[1].body.lo = 0
    /\ Puts(c)[1].ContentLengthHeader = << "0" >>

\* C19: the Content-Range of every PATCH and PUT of a chunked upload is an
\* inclusive range first-last with first <= last, and last - first + 1 is the
\* Content-Length sent with the request.
C19_WellFormedRange ==
  \A c \in CallIds :
    IsChunked(c) =>
      \A j \in 1..Len(Writes(c)) :
        /\ RangeOf(Writes(c)[j].ContentRange).ok
        /\ RangeOf(Writes(c)[j].ContentRange).first
             <= RangeOf(Writes(c)[j].ContentRange).last
        /\ IsNumber(Writes(c)[j].ContentLengthHeader)
        /\ RangeOf(Writes(c)[j].ContentRange).last
             - RangeOf(Writes(c)[j].ContentRange).first + 1
             = AtoiNat(Writes(c)[j].ContentLengthHeader)

====
